---- MODULE Spec2Model ----
(***************************************************************************)
(* Deep researcher: plan -> split -> provision -> delegate -> synthesize.  *)
(* Model of src/deep_researcher/src/{planner,task_splitter,coordinator}.py *)
(*                                                                         *)
(* Python text is a TLA+ string; an optional value (str | None) is         *)
(* Some(s) or None.  An object is a record whose DOMAIN is the set of      *)
(* attributes it exposes, so hasattr(o, "a") is "a" \in DOMAIN o.          *)
(***************************************************************************)
EXTENDS Integers, Sequences, FiniteSets, TLC

\* ---------------------------------------------------------------- bounds
MaxChunks == 2        \* chunks one streaming response may deliver
MaxSubtasks == 2      \* elements of the `subtasks` array of one response
MaxInvocations == 2   \* tool calls the lead worker issues in one run

\* ----------------------------------------------------------- basic values
None == [some |-> FALSE]
Some(s) == [some |-> TRUE, val |-> s]

\* Python truthiness of a str | None value: `if content:`
Truthy(c) == c.some /\ c.val # ""

\* "".join(list)
RECURSIVE Join(_)
Join(list) == IF list = <<>> THEN "" ELSE Head(list) \o Join(Tail(list))

\* ------------------------------------------------------------ environment
\* os.environ restricted to the two credentials: absent, set but empty, set.
EnvValues == {None, Some(""), Some("tok")}

Queries == {"q1", "q2"}

\* ------------------------------------------------------- response objects
\* First-choice shapes a response unit (chunk or complete response) can have.
Contents == {None, Some(""), Some("a"), Some("b")}

DeltaChoices == {[delta |-> [content |-> c]] : c \in Contents}
MessageChoices == {[message |-> [content |-> c]] : c \in {None, Some(""), Some("m"), Some("n")}}
OddChoices == { [delta |-> [role |-> "assistant"], message |-> [content |-> Some("m")]],
                [delta |-> [role |-> "assistant"]],
                [delta |-> [content |-> None], message |-> [content |-> Some("m")]],
                [index |-> 0] }

\* Chunks of a streaming response.
ChunkShapes == {[choices |-> <<ch>>] : ch \in DeltaChoices}
               \cup {[choices |-> <<ch>>] : ch \in OddChoices}
               \cup {[choices |-> <<>>], [id |-> "c"]}

\* Complete (non-streaming) responses: iterating them raises TypeError. Their
\* first choice, when there is one, carries a message and no delta.
CompleteShapes == {[choices |-> <<ch>>] : ch \in MessageChoices}
                  \cup {[choices |-> <<>>], [id |-> "r"]}

\* A streaming response object: iterable, exposes no `choices`.
StreamObject == [stream |-> TRUE]

Iterable(obj) == "stream" \in DOMAIN obj

\* ------------------------------------------------------------ JSON values
\* A parsed JSON value is tagged by the name of its only field.
JNull == [null |-> TRUE]
JNum(n) == [num |-> n]
JStr(s) == [str |-> s]
JArr(seq) == [arr |-> seq]
JObj(f) == [obj |-> f]

IsObj(j) == "obj" \in DOMAIN j
IsArr(j) == "arr" \in DOMAIN j
IsStr(j) == "str" \in DOMAIN j

SeqUpTo(S, n) == UNION {[1..k -> S] : k \in 0..n}

\* Records the model may put in the `subtasks` array.
WellFormedRecords ==
    {JObj([id |-> JStr(i), title |-> JStr("T"), description |-> JStr("D")]) : i \in {"A", "B"}}
    \cup {JObj([id |-> JStr("A"), title |-> JStr(""), description |-> JStr("D")]),
          JObj([id |-> JStr("B"), title |-> JStr("T"), description |-> JStr("")]),
          JObj([id |-> JStr("C"), title |-> JStr("T"), description |-> JStr("D"),
                priority |-> JNum(1)])}
IllFormedElements ==
    {JObj([id |-> JStr("A")]),
     JObj([id |-> JStr("A"), title |-> JNum(1), description |-> JStr("D")]),
     JObj([id |-> JStr("A"), title |-> JStr("T"), description |-> JNull]),
     JStr("x"), JNull}
ElementShapes == WellFormedRecords \cup IllFormedElements

\* Text of message.content: malformed, or the serialization of a JSON value.
Malformed == [malformed |-> TRUE]
Text(j) == [json |-> j]

TopValues ==
    {JObj([subtasks |-> JArr(a)]) : a \in SeqUpTo(ElementShapes, MaxSubtasks)}
    \cup {JObj([subtasks |-> x]) : x \in {JNull, JNum(1), JStr(""), JStr("x"),
                                          JObj(<<>>), JObj([id |-> JStr("A")])}}
    \cup {JObj([wrong_key |-> JArr(<<>>)]), JObj(<<>>), JArr(<<>>), JStr("x"), JNull, JNum(1)}

SplitContents == {None, Some(Malformed)} \cup {Some(Text(j)) : j \in TopValues}

Plans == {"", "p1", "p2"}

\* Responses the services give during a whole run of run_deep_research: fewer
\* shapes than when one function is exercised alone.
RunChunkShapes == {[choices |-> <<[delta |-> [content |-> Some("a")]]>>],
                   [choices |-> <<[delta |-> [content |-> None]]>>]}
RunCompleteShapes == {[choices |-> <<[message |-> [content |-> Some("m")]]>>]}
RunRecords ==
    {JObj([id |-> JStr(i), title |-> JStr("T"), description |-> JStr("D")]) : i \in {"A", "B"}}
RunSplitContents ==
    {None, Some(Malformed), Some(Text(JObj([wrong_key |-> JArr(<<>>)]))),
     Some(Text(JObj([subtasks |-> JNull]))),
     Some(Text(JObj([subtasks |-> JArr(<<JObj([id |-> JStr("A")])>>)])))}
    \cup {Some(Text(JObj([subtasks |-> JArr(a)]))) : a \in SeqUpTo(RunRecords, MaxSubtasks)}

\* Responses the services give to a process started through main().
MainChunkShapes == {[choices |-> <<[delta |-> [content |-> Some("a")]]>>]}
MainSplitContents ==
    {Some(Malformed),
     Some(Text(JObj([subtasks |-> JArr(<<JObj([id |-> JStr("A"), title |-> JStr("T"),
                                              description |-> JStr("D")])>>)])))}

\* Lines the operator may type, as sequences of pieces: blanks and words.
Whitespace == {" ", "\t"}
MainInputs == {<<>>, <<" ", "\t">>, <<"q1">>, <<" ", "q1", " ">>}

\* str.strip(): the pieces without the leading and the trailing blanks.
RECURSIVE lstrip(_)
lstrip(line) ==
    IF line # <<>> /\ Head(line) \in Whitespace THEN lstrip(Tail(line)) ELSE line

RECURSIVE rstrip(_)
rstrip(line) ==
    IF line # <<>> /\ line[Len(line)] \in Whitespace
    THEN rstrip(SubSeq(line, 1, Len(line) - 1)) ELSE line

strip(line) == rstrip(lstrip(line))

\* ----------------------------------------------------------------- state
VARIABLES
    entry,          \* function called by the test or process: "run", "plan", "split",
                    \* "main"
    user_input,     \* what the operator typed at the prompt of main()
    artifact,       \* content of research_result.md, None while it does not exist
    env,            \* [HF_TOKEN, FIRECRAWL_API_KEY]
    query,          \* argument of run_deep_research / generate_research_plan
    pc,             \* position in the code
    error,          \* exception propagating out of the entry function, or "none"
    result,         \* value returned by the entry function (None until it returns)
    \* generate_research_plan
    planClients,    \* InferenceClient objects constructed by the planner
    planRequests,   \* completion requests issued by the planner (user message of each)
    completion,     \* object returned by client.chat.completions.create
    arrived,        \* chunks the stream has yielded so far
    chunks,         \* local list `chunks` of _process_streaming_response
    planRet,        \* value generate_research_plan returns
    \* split_into_subtasks
    research_plan,  \* argument of split_into_subtasks; local of run_deep_research
    splitClients,   \* InferenceClient objects constructed by the splitter
    splitRequests,  \* completion requests issued by the splitter (user message of each)
    message,        \* completion.choices[0].message
    subtasks_data,  \* json.loads(message.content)["subtasks"]
    subtasks,       \* list of Subtask built so far / returned
    \* run_deep_research
    hf_token,       \* local hf_token
    models,         \* InferenceClientModel objects created, in creation order
    mcp_url,        \* local mcp_url
    mcp,            \* tool-service connection: "none", "open", "closed"
    acquired,       \* times the connection was acquired
    released,       \* times the connection was released
    coordinator,    \* the lead worker (ToolCallingAgent), or NoObject
    coordinator_prompt,  \* prompt passed to coordinator.run
    calls,          \* invocations of initialize_subagent by the lead worker
    pending,        \* exception unwinding through the `with` block, or "none"
    final_report,   \* value coordinator.run returned
    log             \* stages of run_deep_research entered so far

planVars == <<planClients, planRequests, completion, arrived, chunks, planRet>>
splitVars == <<splitClients, splitRequests, message, subtasks_data, subtasks>>
ctlVars == <<entry, env, query, user_input, artifact>>
runVars == <<hf_token, models, mcp_url, mcp, acquired, released, coordinator,
             coordinator_prompt, calls, pending, final_report, log>>
vars == <<ctlVars, pc, error, result, planVars, research_plan, splitVars, runVars>>

NoObject == [none |-> TRUE]

\* The entries that execute run_deep_research.
RunEntries == {"run", "main"}

ChunkInputs ==
    IF entry = "main" THEN MainChunkShapes
    ELSE IF entry = "run" THEN RunChunkShapes ELSE ChunkShapes
CompleteInputs == IF entry \in RunEntries THEN RunCompleteShapes ELSE CompleteShapes
SplitInputs ==
    IF entry = "main" THEN MainSplitContents
    ELSE IF entry = "run" THEN RunSplitContents ELSE SplitContents

\* ------------------------------------------------------------ planner.py
\* A different first-choice preference: message before delta.
_extract_content_message_first(response_obj) ==
    IF "choices" \in DOMAIN response_obj /\ response_obj.choices # <<>>
    THEN LET choice == response_obj.choices[1] IN
         IF "message" \in DOMAIN choice /\ "content" \in DOMAIN choice.message
         THEN choice.message.content
         ELSE IF "delta" \in DOMAIN choice /\ "content" \in DOMAIN choice.delta
              THEN choice.delta.content
              ELSE None
    ELSE None

_extract_content(response_obj) ==
    IF "choices" \in DOMAIN response_obj /\ response_obj.choices # <<>>
    THEN LET choice == response_obj.choices[1] IN
         IF "delta" \in DOMAIN choice /\ "content" \in DOMAIN choice.delta
         THEN choice.delta.content
         ELSE IF "message" \in DOMAIN choice /\ "content" \in DOMAIN choice.message
              THEN choice.message.content
              ELSE None
    ELSE None

_process_complete_response(obj) ==
    LET content == _extract_content(obj) IN
    IF Truthy(content) THEN content.val ELSE ""

\* The loop body with the fragment put in front of the list.
StreamAppend_prepend(list, chunk) ==
    LET content == _extract_content(chunk) IN
    IF Truthy(content) THEN <<content.val>> \o list ELSE list

\* Body of the loop of _process_streaming_response for one chunk.
StreamAppend(list, chunk) ==
    LET content == _extract_content(chunk) IN
    IF Truthy(content) THEN Append(list, content.val) ELSE list

\* The two return statements of generate_research_plan.
PlanReturnSites == {"plan_return_stream", "plan_return_complete"}

Raise(e) == /\ pc' = "raised"
            /\ error' = e

\* The client built from os.environ.get("HF_TOKEN"), with no check of the value.
PlanClient_get ==
    /\ pc = "plan_client"
    /\ planClients' = planClients + 1
    /\ pc' = "plan_request"
    /\ UNCHANGED error
    /\ UNCHANGED <<planRequests, completion, arrived, chunks, planRet>>
    /\ UNCHANGED <<ctlVars, result, research_plan, splitVars, runVars>>

\* client = InferenceClient(api_key=os.environ["HF_TOKEN"])
PlanClient ==
    /\ pc = "plan_client"
    /\ IF env.HF_TOKEN = None
       THEN /\ Raise("KeyError: HF_TOKEN")
            /\ UNCHANGED planClients
       ELSE /\ planClients' = planClients + 1
            /\ pc' = "plan_request"
            /\ UNCHANGED error
    /\ UNCHANGED <<planRequests, completion, arrived, chunks, planRet>>
    /\ UNCHANGED <<ctlVars, result, research_plan, splitVars, runVars>>

\* completion = client.chat.completions.create(..., stream=True)
PlanRequest ==
    /\ pc = "plan_request"
    /\ planRequests' = Append(planRequests, query)
    /\ \/ /\ completion' \in {StreamObject} \cup CompleteInputs
          /\ pc' = "plan_stream"
          /\ UNCHANGED error
       \/ /\ Raise("UpstreamFailure: plan request")
          /\ UNCHANGED completion
    /\ UNCHANGED <<planClients, arrived, chunks, planRet>>
    /\ UNCHANGED <<ctlVars, result, research_plan, splitVars, runVars>>

\* The iteration without the `except TypeError` branch for objects that cannot
\* be iterated.
PlanStream_nofallback ==
    /\ pc = "plan_stream"
    /\ IF ~Iterable(completion)
       THEN /\ Raise("TypeError")
            /\ UNCHANGED <<arrived, chunks, planRet>>
       ELSE \/ \E chunk \in ChunkInputs :
                 /\ Len(arrived) < MaxChunks
                 /\ arrived' = Append(arrived, chunk)
                 /\ chunks' = StreamAppend(chunks, chunk)
                 /\ UNCHANGED <<pc, error, planRet>>
            \/ \* StopIteration: return "".join(chunks)
               /\ planRet' = Some(Join(chunks))
               /\ pc' = "plan_return_stream"
               /\ UNCHANGED <<error, arrived, chunks>>
            \/ \* the iterator raises TypeError while being consumed
               /\ pc' = "plan_fallback"
               /\ UNCHANGED <<error, arrived, chunks, planRet>>
            \/ \* the iterator raises anything else
               /\ Raise("UpstreamFailure: plan stream")
               /\ UNCHANGED <<arrived, chunks, planRet>>
    /\ UNCHANGED <<planClients, planRequests, completion>>
    /\ UNCHANGED <<ctlVars, result, research_plan, splitVars, runVars>>

\* for chunk in completion: ... one step of the iteration, its end, or its failure
PlanStream ==
    /\ pc = "plan_stream"
    /\ IF ~Iterable(completion)
       THEN \* iter() raises TypeError: except TypeError
            /\ pc' = "plan_fallback"
            /\ UNCHANGED <<error, arrived, chunks, planRet>>
       ELSE \/ \E chunk \in ChunkInputs :
                 /\ Len(arrived) < MaxChunks
                 /\ arrived' = Append(arrived, chunk)
                 /\ chunks' = StreamAppend(chunks, chunk)
                 /\ UNCHANGED <<pc, error, planRet>>
            \/ \* StopIteration: return "".join(chunks)
               /\ planRet' = Some(Join(chunks))
               /\ pc' = "plan_return_stream"
               /\ UNCHANGED <<error, arrived, chunks>>
            \/ \* the iterator raises TypeError while being consumed
               /\ pc' = "plan_fallback"
               /\ UNCHANGED <<error, arrived, chunks, planRet>>
            \/ \* the iterator raises anything else
               /\ Raise("UpstreamFailure: plan stream")
               /\ UNCHANGED <<arrived, chunks, planRet>>
    /\ UNCHANGED <<planClients, planRequests, completion>>
    /\ UNCHANGED <<ctlVars, result, research_plan, splitVars, runVars>>

\* A fallback that asks the service again with stream=False.
PlanFallback_rerequest ==
    /\ pc = "plan_fallback"
    /\ planRequests' = Append(planRequests, query)
    /\ planRet' = Some(_process_complete_response(completion))
    /\ pc' = "plan_return_complete"
    /\ UNCHANGED <<planClients, completion, arrived, chunks>>
    /\ UNCHANGED <<ctlVars, error, result, research_plan, splitVars, runVars>>

\* except TypeError: return _process_complete_response(completion)
PlanFallback ==
    /\ pc = "plan_fallback"
    /\ planRet' = Some(_process_complete_response(completion))
    /\ pc' = "plan_return_complete"
    /\ UNCHANGED <<planClients, planRequests, completion, arrived, chunks>>
    /\ UNCHANGED <<ctlVars, error, result, research_plan, splitVars, runVars>>

\* generate_research_plan returns to the test that called it.
PlanReturn ==
    /\ pc \in PlanReturnSites
    /\ entry = "plan"
    /\ result' = planRet
    /\ pc' = "returned"
    /\ UNCHANGED <<ctlVars, error, planVars, research_plan, splitVars, runVars>>

\* ------------------------------------------------------- task_splitter.py
ParseFailure == "ValueError: Failed to parse subtasks from response"

\* json.loads(content): the parsed value, or the exception it raises.
json_loads(content) ==
    IF ~content.some THEN [exc |-> "TypeError"]
    ELSE IF "malformed" \in DOMAIN content.val THEN [exc |-> "JSONDecodeError"]
    ELSE [value |-> content.val.json]

\* value.get(key, []) in place of value[key].
Subscript_get(j, key) ==
    IF IsObj(j)
    THEN IF key \in DOMAIN j.obj THEN [value |-> j.obj[key]] ELSE [value |-> JArr(<<>>)]
    ELSE [exc |-> "TypeError"]

\* value[key] for a str key.
Subscript(j, key) ==
    IF IsObj(j)
    THEN IF key \in DOMAIN j.obj THEN [value |-> j.obj[key]] ELSE [exc |-> "KeyError"]
    ELSE [exc |-> "TypeError"]

\* The lookup followed by `if not subtasks_data: raise KeyError`.
LoadSubtasksData_nonempty(content) ==
    LET parsed == json_loads(content) IN
    IF "exc" \in DOMAIN parsed THEN parsed
    ELSE LET found == Subscript(parsed.value, "subtasks") IN
         IF "value" \in DOMAIN found /\ found.value = JArr(<<>>)
         THEN [exc |-> "KeyError"] ELSE found

\* json.loads(message.content)["subtasks"]
LoadSubtasksData(content) ==
    LET parsed == json_loads(content) IN
    IF "exc" \in DOMAIN parsed THEN parsed ELSE Subscript(parsed.value, "subtasks")

\* What `for task in subtasks_data` iterates over (a list, the characters of a
\* str, the keys of a dict); anything else is not iterable. The strings of the
\* model are "" and "x", so every character of one is "x".
CanIterate(j) == IsArr(j) \/ IsStr(j) \/ IsObj(j)

RECURSIVE SetToSeq(_)
SetToSeq(S) == IF S = {} THEN <<>>
               ELSE LET x == CHOOSE y \in S : TRUE IN <<x>> \o SetToSeq(S \ {x})

Items(j) ==
    IF IsArr(j) THEN j.arr
    ELSE IF IsStr(j) THEN [k \in 1..Len(j.str) |-> JStr("x")]
    ELSE [k \in 1..Cardinality(DOMAIN j.obj) |-> JStr(SetToSeq(DOMAIN j.obj)[k])]

SubtaskFields == {"id", "title", "description"}

\* The record with title and description exchanged.
Subtask_swap(task) ==
    IF ~IsObj(task) THEN [exc |-> "TypeError"]
    ELSE IF \E f \in SubtaskFields : f \notin DOMAIN task.obj \/ ~IsStr(task.obj[f])
    THEN [exc |-> "ValidationError"]
    ELSE [value |-> [id |-> task.obj.id.str, title |-> task.obj.description.str,
                     description |-> task.obj.title.str]]

\* The fields declared with a default of "" in place of required ones.
Subtask_lenient(task) ==
    IF ~IsObj(task) THEN [exc |-> "TypeError"]
    ELSE LET field(f) == IF f \in DOMAIN task.obj /\ IsStr(task.obj[f])
                         THEN task.obj[f].str ELSE ""
         IN [value |-> [id |-> field("id"), title |-> field("title"),
                        description |-> field("description")]]

\* Subtask(**task): the record, or the exception the construction raises.
Subtask(task) ==
    IF ~IsObj(task) THEN [exc |-> "TypeError"]
    ELSE IF \E f \in SubtaskFields : f \notin DOMAIN task.obj \/ ~IsStr(task.obj[f])
    THEN [exc |-> "ValidationError"]
    ELSE [value |-> [id |-> task.obj.id.str, title |-> task.obj.title.str,
                     description |-> task.obj.description.str]]

\* hf_token = os.environ.get("HF_TOKEN"); if not hf_token: raise KeyError
\* client = InferenceClient(api_key=hf_token)
SplitClient ==
    /\ pc = "split_client"
    /\ IF ~Truthy(env.HF_TOKEN)
       THEN /\ Raise("KeyError: HF_TOKEN")
            /\ UNCHANGED splitClients
       ELSE /\ splitClients' = splitClients + 1
            /\ pc' = "split_request"
            /\ UNCHANGED error
    /\ UNCHANGED <<splitRequests, message, subtasks_data, subtasks>>
    /\ UNCHANGED <<ctlVars, result, planVars, research_plan, runVars>>

\* completion = client.chat.completions.create(...); message = completion.choices[0].message
SplitRequest ==
    /\ pc = "split_request"
    /\ splitRequests' = Append(splitRequests, research_plan)
    /\ \/ /\ message' \in {[content |-> c] : c \in SplitInputs}
          /\ pc' = "split_parse"
          /\ UNCHANGED error
       \/ /\ Raise("UpstreamFailure: split request")
          /\ UNCHANGED message
    /\ UNCHANGED <<splitClients, subtasks_data, subtasks>>
    /\ UNCHANGED <<ctlVars, result, planVars, research_plan, runVars>>

\* try: subtasks_data = json.loads(message.content)["subtasks"]
\* except (json.JSONDecodeError, KeyError, TypeError) as e: raise ValueError(...)
SplitParse ==
    /\ pc = "split_parse"
    /\ LET loaded == LoadSubtasksData(message.content) IN
       IF "exc" \in DOMAIN loaded
       THEN /\ Raise(ParseFailure)
            /\ UNCHANGED subtasks_data
       ELSE /\ subtasks_data' = loaded.value
            /\ pc' = "split_build"
            /\ UNCHANGED error
    /\ UNCHANGED <<splitClients, splitRequests, message, subtasks>>
    /\ UNCHANGED <<ctlVars, result, planVars, research_plan, runVars>>

\* subtasks = [Subtask(**task) for task in subtasks_data], one element per step
SplitBuild ==
    /\ pc = "split_build"
    /\ IF ~CanIterate(subtasks_data)
       THEN /\ Raise("TypeError")
            /\ UNCHANGED subtasks
       ELSE IF Len(subtasks) = Len(Items(subtasks_data))
       THEN /\ pc' = "split_return"
            /\ UNCHANGED <<error, subtasks>>
       ELSE LET made == Subtask(Items(subtasks_data)[Len(subtasks) + 1]) IN
            IF "exc" \in DOMAIN made
            THEN /\ Raise(made.exc)
                 /\ subtasks' = <<>>
            ELSE /\ subtasks' = Append(subtasks, made.value)
                 /\ UNCHANGED <<pc, error>>
    /\ UNCHANGED <<splitClients, splitRequests, message, subtasks_data>>
    /\ UNCHANGED <<ctlVars, result, planVars, research_plan, runVars>>

\* split_into_subtasks returns to the test that called it.
SplitReturn ==
    /\ pc = "split_return"
    /\ entry = "split"
    /\ result' = Some(subtasks)
    /\ pc' = "returned"
    /\ UNCHANGED <<ctlVars, error, planVars, research_plan, splitVars, runVars>>

\* ---------------------------------------------------------- coordinator.py
COORDINATOR_MODEL_ID == "MiniMaxAI/MiniMax-M1-80k"
SUBAGENT_MODEL_ID == "MiniMaxAI/MiniMax-M1-80k"

\* Reports a worker's run may return.
SubagentReports == {"r1", "r2"}
FinalReports == {"R1", "R2"}

\* f"https://mcp.firecrawl.dev/{api_key}/v2/mcp"
McpUrl(api_key) == "https://mcp.firecrawl.dev/" \o api_key \o "/v2/mcp"

\* task.model_dump() and json.dumps of the list of dumps
model_dump(task) ==
    JObj([id |-> JStr(task.id), title |-> JStr(task.title),
          description |-> JStr(task.description)])

\* The dumps serialised last subtask first.
subtasks_json_reversed(list) ==
    Text(JArr([k \in 1..Len(list) |-> model_dump(list[Len(list) + 1 - k])]))

subtasks_json(list) == Text(JArr([k \in 1..Len(list) |-> model_dump(list[k])]))

\* The template formatted with the query where the plan belongs.
CoordinatorPrompt_noplan(user_query, plan, json) ==
    <<"coordinator:query", user_query, "coordinator:plan", user_query,
      "coordinator:subtasks", json, "coordinator:rules", user_query, "coordinator:end">>

\* COORDINATOR_PROMPT_TEMPLATE.format(...): the template's literal text between
\* its placeholders, and the values substituted for them, in order.
CoordinatorPrompt(user_query, plan, json) ==
    <<"coordinator:query", user_query, "coordinator:plan", plan,
      "coordinator:subtasks", json, "coordinator:rules", user_query, "coordinator:end">>

\* SUBAGENT_PROMPT_TEMPLATE.format(...)
SubagentPrompt(user_query, plan, subtask_id, subtask_title, subtask_description) ==
    <<"subagent:query", user_query, "subagent:plan", plan, "subagent:id", subtask_id,
      "subagent:title", subtask_title, "subagent:description", subtask_description,
      "subagent:end">>

\* Arguments the lead worker may pass to the tool: the fields of a subtask of
\* the list it was given, or a triple of its own making.
InventedArgs == [id |-> "Z", title |-> "T", description |-> "D"]
ToolArgs == {subtasks[k] : k \in 1..Len(subtasks)} \cup {InventedArgs}

\* print("*** Running the deep research ***"); generate_research_plan(query)
RunCallPlan ==
    /\ pc = "run_start"
    /\ log' = Append(log, "plan_call")
    /\ pc' = "plan_client"
    /\ UNCHANGED <<ctlVars, error, result, planVars, research_plan, splitVars>>
    /\ UNCHANGED <<hf_token, models, mcp_url, mcp, acquired, released, coordinator,
                   coordinator_prompt, calls, pending, final_report>>

\* The splitter called with the query in place of the plan.
RunCallSplit_query ==
    /\ pc \in PlanReturnSites
    /\ entry \in RunEntries
    /\ research_plan' = query
    /\ completion' = NoObject
    /\ arrived' = <<>>
    /\ chunks' = <<>>
    /\ log' = log \o <<"plan_return", "split_call">>
    /\ pc' = "split_client"
    /\ UNCHANGED <<ctlVars, error, result, planClients, planRequests, planRet, splitVars>>
    /\ UNCHANGED <<hf_token, models, mcp_url, mcp, acquired, released, coordinator,
                   coordinator_prompt, calls, pending, final_report>>

\* research_plan = <value returned>; split_into_subtasks(research_plan)
\* The planner's locals are gone once it has returned.
RunCallSplit ==
    /\ pc \in PlanReturnSites
    /\ entry \in RunEntries
    /\ research_plan' = planRet.val
    /\ completion' = NoObject
    /\ arrived' = <<>>
    /\ chunks' = <<>>
    /\ log' = log \o <<"plan_return", "split_call">>
    /\ pc' = "split_client"
    /\ UNCHANGED <<ctlVars, error, result, planClients, planRequests, planRet, splitVars>>
    /\ UNCHANGED <<hf_token, models, mcp_url, mcp, acquired, released, coordinator,
                   coordinator_prompt, calls, pending, final_report>>

\* An early `return ""` when the splitter gave no subtasks.
RunGetHfToken_skipempty ==
    /\ pc = "split_return"
    /\ entry \in RunEntries
    /\ message' = NoObject
    /\ subtasks_data' = JNull
    /\ log' = Append(log, "split_return")
    /\ IF subtasks = <<>>
       THEN /\ result' = Some("")
            /\ pc' = "returned"
            /\ UNCHANGED <<error, hf_token>>
       ELSE IF ~Truthy(env.HF_TOKEN)
       THEN /\ Raise("KeyError: HF_TOKEN")
            /\ UNCHANGED <<hf_token, result>>
       ELSE /\ hf_token' = env.HF_TOKEN
            /\ pc' = "create_model"
            /\ UNCHANGED <<error, result>>
    /\ UNCHANGED <<ctlVars, planVars, research_plan, splitClients, splitRequests,
                   subtasks>>
    /\ UNCHANGED <<models, mcp_url, mcp, acquired, released, coordinator,
                   coordinator_prompt, calls, pending, final_report>>

\* subtasks = <value returned>; hf_token = _get_hf_token()
RunGetHfToken ==
    /\ pc = "split_return"
    /\ entry \in RunEntries
    /\ message' = NoObject
    /\ subtasks_data' = JNull
    /\ log' = Append(log, "split_return")
    /\ IF ~Truthy(env.HF_TOKEN)
       THEN /\ Raise("KeyError: HF_TOKEN")
            /\ UNCHANGED hf_token
       ELSE /\ hf_token' = env.HF_TOKEN
            /\ pc' = "create_model"
            /\ UNCHANGED error
    /\ UNCHANGED <<ctlVars, result, planVars, research_plan, splitClients, splitRequests,
                   subtasks>>
    /\ UNCHANGED <<models, mcp_url, mcp, acquired, released, coordinator,
                   coordinator_prompt, calls, pending, final_report>>

\* coordinator_model = _create_model(COORDINATOR_MODEL_ID, hf_token)
\* subagent_model = _create_model(SUBAGENT_MODEL_ID, hf_token)
RunCreateModel ==
    /\ pc = "create_model"
    /\ \/ /\ models' = Append(models,
                 [model_id |-> IF models = <<>> THEN COORDINATOR_MODEL_ID
                               ELSE SUBAGENT_MODEL_ID,
                  api_key |-> hf_token.val])
          /\ log' = Append(log, "model")
          /\ pc' = IF Len(models) = 1 THEN "get_mcp_url" ELSE "create_model"
          /\ UNCHANGED error
       \/ /\ Raise("UpstreamFailure: model")
          /\ UNCHANGED <<models, log>>
    /\ UNCHANGED <<ctlVars, result, planVars, research_plan, splitVars>>
    /\ UNCHANGED <<hf_token, mcp_url, mcp, acquired, released, coordinator,
                   coordinator_prompt, calls, pending, final_report>>

\* The URL built without checking that the key is set.
RunGetMcpUrl_nocheck ==
    /\ pc = "get_mcp_url"
    /\ mcp_url' = Some(McpUrl(IF env.FIRECRAWL_API_KEY.some
                               THEN env.FIRECRAWL_API_KEY.val ELSE "None"))
    /\ pc' = "mcp_enter"
    /\ UNCHANGED error
    /\ UNCHANGED <<ctlVars, result, planVars, research_plan, splitVars>>
    /\ UNCHANGED <<hf_token, models, mcp, acquired, released, coordinator,
                   coordinator_prompt, calls, pending, final_report, log>>

\* mcp_url = _get_mcp_url()
RunGetMcpUrl ==
    /\ pc = "get_mcp_url"
    /\ IF ~Truthy(env.FIRECRAWL_API_KEY)
       THEN /\ Raise("KeyError: FIRECRAWL_API_KEY")
            /\ UNCHANGED mcp_url
       ELSE /\ mcp_url' = Some(McpUrl(env.FIRECRAWL_API_KEY.val))
            /\ pc' = "mcp_enter"
            /\ UNCHANGED error
    /\ UNCHANGED <<ctlVars, result, planVars, research_plan, splitVars>>
    /\ UNCHANGED <<hf_token, models, mcp, acquired, released, coordinator,
                   coordinator_prompt, calls, pending, final_report, log>>

\* with MCPClient({"url": mcp_url, "transport": "streamable-http"}) as mcp_tools:
RunMcpEnter ==
    /\ pc = "mcp_enter"
    /\ \/ /\ mcp' = "open"
          /\ acquired' = acquired + 1
          /\ log' = Append(log, "connect")
          /\ pc' = "new_coordinator"
          /\ UNCHANGED error
       \/ /\ Raise("UpstreamFailure: tool service")
          /\ UNCHANGED <<mcp, acquired, log>>
    /\ UNCHANGED <<ctlVars, result, planVars, research_plan, splitVars>>
    /\ UNCHANGED <<hf_token, models, mcp_url, released, coordinator,
                   coordinator_prompt, calls, pending, final_report>>

\* The lead worker given the research tools as well as the subagent tool.
RunNewCoordinator_mcp ==
    /\ pc = "new_coordinator"
    /\ coordinator' = [tools |-> <<[name |-> "initialize_subagent",
                                    inputs |-> <<"subtask_id", "subtask_title",
                                                 "subtask_description">>],
                                   [name |-> "mcp_tools", inputs |-> <<>>]>>,
                       model |-> 1,
                       add_base_tools |-> FALSE,
                       name |-> "coordinator_agent"]
    /\ coordinator_prompt' = CoordinatorPrompt(query, research_plan, subtasks_json(subtasks))
    /\ log' = Append(log, "lead_new")
    /\ pc' = "lead_call"
    /\ UNCHANGED <<ctlVars, error, result, planVars, research_plan, splitVars>>
    /\ UNCHANGED <<hf_token, models, mcp_url, mcp, acquired, released, calls, pending,
                   final_report>>

\* coordinator = ToolCallingAgent(tools=[initialize_subagent], model=coordinator_model,
\*                                add_base_tools=False, name="coordinator_agent")
\* subtasks_json = json.dumps(...); coordinator_prompt = COORDINATOR_PROMPT_TEMPLATE.format(...)
RunNewCoordinator ==
    /\ pc = "new_coordinator"
    /\ coordinator' = [tools |-> <<[name |-> "initialize_subagent",
                                    inputs |-> <<"subtask_id", "subtask_title",
                                                 "subtask_description">>]>>,
                       model |-> 1,
                       add_base_tools |-> FALSE,
                       name |-> "coordinator_agent"]
    /\ coordinator_prompt' = CoordinatorPrompt(query, research_plan, subtasks_json(subtasks))
    /\ log' = Append(log, "lead_new")
    /\ pc' = "lead_call"
    /\ UNCHANGED <<ctlVars, error, result, planVars, research_plan, splitVars>>
    /\ UNCHANGED <<hf_token, models, mcp_url, mcp, acquired, released, calls, pending,
                   final_report>>

\* final_report = coordinator.run(coordinator_prompt): the call
LeadRun ==
    /\ pc = "lead_call"
    /\ log' = Append(log, "lead_run")
    /\ pc' = "lead_running"
    /\ UNCHANGED <<ctlVars, error, result, planVars, research_plan, splitVars>>
    /\ UNCHANGED <<hf_token, models, mcp_url, mcp, acquired, released, coordinator,
                   coordinator_prompt, calls, pending, final_report>>

\* The worker built on the lead worker's model handle.
initialize_subagent_leadmodel(args) ==
    [args |-> args,
     subagent |-> [tools |-> "mcp_tools", model |-> 1, add_base_tools |-> FALSE,
                   name |-> "subagent_" \o args.id, object |-> Len(calls) + 1],
     prompt |-> SubagentPrompt(query, research_plan, args.id, args.title, args.description),
     connection |-> mcp,
     st |-> "running",
     runs |-> 1,
     worker_out |-> None,
     worker_exc |-> "none",
     out |-> None,
     exc |-> "none"]

\* The lead worker calls initialize_subagent(subtask_id, subtask_title,
\* subtask_description): a worker is constructed and its run begins.
\* `object` tells the worker objects apart: each call constructs its own.
\* `runs` counts the calls of subagent.run; `worker_out` and `worker_exc` are
\* what that run returned or raised, `out` and `exc` what the tool call did.
initialize_subagent(args) ==
    [args |-> args,
     subagent |-> [tools |-> "mcp_tools", model |-> 2, add_base_tools |-> FALSE,
                   name |-> "subagent_" \o args.id, object |-> Len(calls) + 1],
     prompt |-> SubagentPrompt(query, research_plan, args.id, args.title, args.description),
     connection |-> mcp,
     st |-> "running",
     runs |-> 1,
     worker_out |-> None,
     worker_exc |-> "none",
     out |-> None,
     exc |-> "none"]

LeadInvoke ==
    /\ pc = "lead_running"
    /\ Len(calls) < MaxInvocations
    /\ \E args \in ToolArgs : calls' = Append(calls, initialize_subagent(args))
    /\ UNCHANGED <<ctlVars, pc, error, result, planVars, research_plan, splitVars>>
    /\ UNCHANGED <<hf_token, models, mcp_url, mcp, acquired, released, coordinator,
                   coordinator_prompt, pending, final_report, log>>

\* A failure a worker's run may raise.
WorkerFailure == "UpstreamFailure: subagent run"

\* The tool running the worker a second time when its first run raises.
SubagentEnd_retry ==
    /\ pc = "lead_running"
    /\ \E k \in 1..Len(calls) :
         /\ calls[k].st = "running"
         /\ \/ \E r \in SubagentReports :
                 calls' = [calls EXCEPT ![k].st = "returned", ![k].worker_out = Some(r),
                                        ![k].out = Some(r)]
            \/ /\ calls[k].runs = 1
               /\ calls' = [calls EXCEPT ![k].runs = 2]
            \/ /\ calls[k].runs = 2
               /\ calls' = [calls EXCEPT ![k].st = "raised", ![k].worker_exc = WorkerFailure,
                                        ![k].exc = WorkerFailure]
    /\ UNCHANGED <<ctlVars, pc, error, result, planVars, research_plan, splitVars>>
    /\ UNCHANGED <<hf_token, models, mcp_url, mcp, acquired, released, coordinator,
                   coordinator_prompt, pending, final_report, log>>

\* Workers that write their report to one place shared by the running calls.
SubagentEnd_shared ==
    /\ pc = "lead_running"
    /\ \E k \in 1..Len(calls) :
         /\ calls[k].st = "running"
         /\ \/ \E r \in SubagentReports :
                 calls' = [j \in 1..Len(calls) |->
                             IF calls[j].st = "running"
                             THEN [calls[j] EXCEPT !.st = "returned", !.worker_out = Some(r),
                                                   !.out = Some(r)]
                             ELSE calls[j]]
            \/ calls' = [calls EXCEPT ![k].st = "raised", ![k].worker_exc = WorkerFailure,
                                     ![k].exc = WorkerFailure]
    /\ UNCHANGED <<ctlVars, pc, error, result, planVars, research_plan, splitVars>>
    /\ UNCHANGED <<hf_token, models, mcp_url, mcp, acquired, released, coordinator,
                   coordinator_prompt, pending, final_report, log>>

\* return subagent.run(subagent_prompt): the worker's run returns or raises
SubagentEnd ==
    /\ pc = "lead_running"
    /\ \E k \in 1..Len(calls) :
         /\ calls[k].st = "running"
         /\ \/ \E r \in SubagentReports :
                 calls' = [calls EXCEPT ![k].st = "returned", ![k].worker_out = Some(r),
                                        ![k].out = Some(r)]
            \/ calls' = [calls EXCEPT ![k].st = "raised", ![k].worker_exc = WorkerFailure,
                                     ![k].exc = WorkerFailure]
    /\ UNCHANGED <<ctlVars, pc, error, result, planVars, research_plan, splitVars>>
    /\ UNCHANGED <<hf_token, models, mcp_url, mcp, acquired, released, coordinator,
                   coordinator_prompt, pending, final_report, log>>

Settled == \A k \in 1..Len(calls) : calls[k].st # "running"

\* A lead worker whose run ends while tool calls it started are still running.
LeadEnd_early ==
    /\ pc = "lead_running"
    /\ \/ /\ \E r \in FinalReports : final_report' = Some(r)
          /\ log' = Append(log, "lead_return")
          /\ UNCHANGED pending
       \/ /\ pending' = "UpstreamFailure: lead run"
          /\ UNCHANGED <<final_report, log>>
       \/ /\ \E k \in 1..Len(calls) : calls[k].st = "raised"
          /\ pending' = WorkerFailure
          /\ UNCHANGED <<final_report, log>>
    /\ pc' = "mcp_exit"
    /\ UNCHANGED <<ctlVars, error, result, planVars, research_plan, splitVars>>
    /\ UNCHANGED <<hf_token, models, mcp_url, mcp, acquired, released, coordinator,
                   coordinator_prompt, calls>>

\* coordinator.run returns its final output, or raises: a failure of its own,
\* or the failure of a tool call it does not handle.
LeadEnd ==
    /\ pc = "lead_running"
    /\ Settled
    /\ \/ /\ \E r \in FinalReports : final_report' = Some(r)
          /\ log' = Append(log, "lead_return")
          /\ UNCHANGED pending
       \/ /\ pending' = "UpstreamFailure: lead run"
          /\ UNCHANGED <<final_report, log>>
       \/ /\ \E k \in 1..Len(calls) : calls[k].st = "raised"
          /\ pending' = WorkerFailure
          /\ UNCHANGED <<final_report, log>>
    /\ pc' = "mcp_exit"
    /\ UNCHANGED <<ctlVars, error, result, planVars, research_plan, splitVars>>
    /\ UNCHANGED <<hf_token, models, mcp_url, mcp, acquired, released, coordinator,
                   coordinator_prompt, calls>>

\* __exit__ swallowing the pending exception.
RunMcpExit_suppress ==
    /\ pc = "mcp_exit"
    /\ mcp' = "closed"
    /\ released' = released + 1
    /\ log' = Append(log, "release")
    /\ IF pending # "none"
       THEN /\ result' = final_report
            /\ pc' = "returned"
            /\ UNCHANGED error
       ELSE /\ result' = final_report
            /\ pc' = "returned"
            /\ UNCHANGED error
    /\ UNCHANGED <<ctlVars, planVars, research_plan, splitVars>>
    /\ UNCHANGED <<hf_token, models, mcp_url, acquired, coordinator,
                   coordinator_prompt, calls, pending, final_report>>

\* The connection closed on the success path only.
RunMcpExit_leak ==
    /\ pc = "mcp_exit"
    /\ mcp' = IF pending # "none" THEN mcp ELSE "closed"
    /\ released' = IF pending # "none" THEN released ELSE released + 1
    /\ log' = IF pending # "none" THEN log ELSE Append(log, "release")
    /\ IF pending # "none"
       THEN /\ Raise(pending)
            /\ UNCHANGED result
       ELSE /\ result' = final_report
            /\ pc' = "returned"
            /\ UNCHANGED error
    /\ UNCHANGED <<ctlVars, planVars, research_plan, splitVars>>
    /\ UNCHANGED <<hf_token, models, mcp_url, acquired, coordinator,
                   coordinator_prompt, calls, pending, final_report>>

\* A return that first checks that every subtask was researched exactly once.
RunMcpExit_coverage ==
    /\ pc = "mcp_exit"
    /\ mcp' = "closed"
    /\ released' = released + 1
    /\ log' = Append(log, "release")
    /\ IF pending # "none"
       THEN /\ Raise(pending)
            /\ UNCHANGED result
       ELSE IF \/ Len(calls) # Len(subtasks)
               \/ {calls[k].args : k \in 1..Len(calls)}
                     # {subtasks[k] : k \in 1..Len(subtasks)}
       THEN /\ Raise("ValueError: coverage")
            /\ UNCHANGED result
       ELSE /\ result' = final_report
            /\ pc' = "returned"
            /\ UNCHANGED error
    /\ UNCHANGED <<ctlVars, planVars, research_plan, splitVars>>
    /\ UNCHANGED <<hf_token, models, mcp_url, acquired, coordinator,
                   coordinator_prompt, calls, pending, final_report>>

\* Leaving the `with` block: MCPClient.__exit__, then the pending exception or
\* `return final_report`.
RunMcpExit ==
    /\ pc = "mcp_exit"
    /\ mcp' = "closed"
    /\ released' = released + 1
    /\ log' = Append(log, "release")
    /\ IF pending # "none"
       THEN /\ Raise(pending)
            /\ UNCHANGED result
       ELSE /\ result' = final_report
            /\ pc' = "returned"
            /\ UNCHANGED error
    /\ UNCHANGED <<ctlVars, planVars, research_plan, splitVars>>
    /\ UNCHANGED <<hf_token, models, mcp_url, acquired, coordinator,
                   coordinator_prompt, calls, pending, final_report>>

\* ------------------------------------------------------------------ main.py
\* The line passed on as the query without being stripped.
MainInput_nostrip ==
    /\ pc = "main_input"
    /\ query' = Join(user_input)
    /\ pc' = IF user_input = <<>> THEN "main_exit" ELSE "run_start"
    /\ UNCHANGED <<entry, env, user_input, artifact>>
    /\ UNCHANGED <<error, result, planVars, research_plan, splitVars, runVars>>

\* user_query = input(...).strip(); if not user_query: return;
\* result = run_deep_research(user_query): the call
MainInput ==
    /\ pc = "main_input"
    /\ query' = Join(strip(user_input))
    /\ pc' = IF strip(user_input) = <<>> THEN "main_exit" ELSE "run_start"
    /\ UNCHANGED <<entry, env, user_input, artifact>>
    /\ UNCHANGED <<error, result, planVars, research_plan, splitVars, runVars>>

\* OUTPUT_FILE.write_text(result, encoding="utf-8"): the file is written, or
\* the write fails before or after the file was opened for writing and the
\* exception leaves main() with its locals.
MainWrite ==
    /\ pc = "returned"
    /\ entry = "main"
    /\ \/ /\ artifact' = result
          /\ pc' = "main_done"
          /\ UNCHANGED <<error, result>>
       \/ /\ artifact' \in {None, Some("")}
          /\ result' = None
          /\ Raise("OSError")
    /\ UNCHANGED <<entry, env, query, user_input>>
    /\ UNCHANGED <<planVars, research_plan, splitVars, runVars>>

\* ------------------------------------------------------------ specifications
InitCommon ==
    /\ artifact = None
    /\ env \in [HF_TOKEN : EnvValues, FIRECRAWL_API_KEY : EnvValues]
    /\ error = "none"
    /\ result = None
    /\ planClients = 0
    /\ planRequests = <<>>
    /\ completion = NoObject
    /\ arrived = <<>>
    /\ chunks = <<>>
    /\ planRet = None
    /\ splitClients = 0
    /\ splitRequests = <<>>
    /\ message = NoObject
    /\ subtasks_data = JNull
    /\ subtasks = <<>>
    /\ hf_token = None
    /\ models = <<>>
    /\ mcp_url = None
    /\ mcp = "none"
    /\ acquired = 0
    /\ released = 0
    /\ coordinator = NoObject
    /\ coordinator_prompt = <<>>
    /\ calls = <<>>
    /\ pending = "none"
    /\ final_report = None
    /\ log = <<>>

\* A test calls generate_research_plan(query).
InitPlan ==
    /\ user_input = <<>>
    /\ entry = "plan"
    /\ query \in Queries
    /\ research_plan = ""
    /\ pc = "plan_client"
    /\ InitCommon

\* A test calls split_into_subtasks(research_plan).
InitSplit ==
    /\ user_input = <<>>
    /\ entry = "split"
    /\ query = ""
    /\ research_plan \in Plans
    /\ pc = "split_client"
    /\ InitCommon

\* The process calls run_deep_research(query).
InitRun ==
    /\ user_input = <<>>
    /\ entry = "run"
    /\ query \in Queries
    /\ research_plan = ""
    /\ pc = "run_start"
    /\ InitCommon

\* The process is started: main() is about to read the operator's line.
InitMain ==
    /\ entry = "main"
    /\ user_input \in MainInputs
    /\ query = ""
    /\ research_plan = ""
    /\ pc = "main_input"
    /\ InitCommon

PlannerStep == PlanClient \/ PlanRequest \/ PlanStream \/ PlanFallback
SplitterStep == SplitClient \/ SplitRequest \/ SplitParse \/ SplitBuild

\* The entry function is run_deep_research, or one of the two stage functions
\* called on its own.
Init == InitRun \/ InitPlan \/ InitSplit \/ InitMain

Next ==
    \/ RunCallPlan
    \/ PlannerStep
    \/ PlanReturn
    \/ RunCallSplit
    \/ SplitterStep
    \/ SplitReturn
    \/ RunGetHfToken
    \/ RunCreateModel
    \/ RunGetMcpUrl
    \/ RunMcpEnter
    \/ RunNewCoordinator
    \/ LeadRun
    \/ LeadInvoke
    \/ SubagentEnd
    \/ LeadEnd
    \/ RunMcpExit
    \/ MainInput
    \/ MainWrite

Spec == Init /\ [][Next]_vars
\* ------------------------------------------------------------------ claims
Range(seq) == {seq[k] : k \in 1..Len(seq)}
IsPrefix(a, b) == Len(a) <= Len(b) /\ \A k \in 1..Len(a) : a[k] = b[k]
NotRelease(e) == e # "release"
Stages == SelectSeq(log, NotRelease)

StageOrder == <<"plan_call", "plan_return", "split_call", "split_return", "model", "model",
                "connect", "lead_new", "lead_run", "lead_return">>

MissingHf == "KeyError: HF_TOKEN"
MissingFirecrawl == "KeyError: FIRECRAWL_API_KEY"

\* C1: the stages of a run occur in one fixed order: the planner is called once
\* with the query and returns before the splitter is called once with the plan
\* the planner returned; the splitter returns before any model, connection or
\* worker exists; the lead worker's run is the last stage and what it returns
\* is what run_deep_research returns.
C1_StageOrder ==
    entry = "run" =>
      /\ IsPrefix(Stages, StageOrder)
      /\ planRequests \in {<<>>, <<query>>}
      /\ "split_call" \in Range(log) =>
            /\ planRet.some
            /\ research_plan = planRet.val
            /\ splitRequests \in {<<>>, <<planRet.val>>}
      /\ (models # <<>> \/ mcp # "none" \/ coordinator # NoObject \/ calls # <<>>)
            => "split_return" \in Range(log)
      /\ "lead_return" \in Range(log) => pc \in {"mcp_exit", "returned"} /\ Settled
      /\ pc = "returned" =>
            /\ "lead_return" \in Range(log)
            /\ final_report.some
            /\ result = final_report

C1_Witness ==
    /\ entry = "run"
    /\ pc = "returned"
    /\ Len(subtasks) = 2
    /\ calls # <<>>
    /\ research_plan # ""

\* Nothing of a later stage exists when the run failed with error e.
NothingAfterSplit ==
    models = <<>> /\ acquired = 0 /\ coordinator = NoObject /\ calls = <<>>
NothingAfterPlan ==
    splitClients = 0 /\ splitRequests = <<>> /\ NothingAfterSplit

FailureStops ==
    /\ pc = "raised" => error # "none" /\ result = None
    /\ pc = "returned" => error = "none"
    /\ pending # "none" => final_report = None
    /\ error \in {"UpstreamFailure: plan request", "UpstreamFailure: plan stream"}
          => NothingAfterPlan
    /\ (error = MissingHf /\ env.HF_TOKEN = None /\ entry = "run") => NothingAfterPlan
    /\ (error \in {MissingHf, "UpstreamFailure: split request", ParseFailure,
                   "ValidationError", "TypeError"} /\ entry = "run")
          => NothingAfterSplit
    /\ error = "UpstreamFailure: model" => acquired = 0 /\ coordinator = NoObject /\ calls = <<>>
    /\ error \in {MissingFirecrawl, "UpstreamFailure: tool service"}
          => coordinator = NoObject /\ calls = <<>>

\* The original C2: a failure at any stage, a subagent invocation included,
\* aborts the run, starts nothing later and returns no report.
C2_AnyFailureAborts ==
    /\ FailureStops
    /\ (\E k \in 1..Len(calls) : calls[k].st = "raised")
          => /\ final_report = None
             /\ result = None

\* C2 as amended: a failure of plan generation, of splitting, of credential,
\* model or connection provisioning, or of the lead worker's run aborts the
\* run: nothing later is started, the failure reaches the caller and no report
\* is returned. A failed subagent invocation aborts the run when the lead
\* worker's run raises.
C2_FailureAborts ==
    /\ []FailureStops
    /\ [][/\ pc # "raised"
          /\ pending # "none" =>
                /\ pc' = "raised"
                /\ error' = pending
                /\ result' = None
                /\ UNCHANGED <<calls, models, coordinator, final_report, acquired>>]_vars

C2_Witness ==
    /\ pc = "raised"
    /\ error = "UpstreamFailure: subagent run"
    /\ released = 1
    /\ \E k \in 1..Len(calls) : calls[k].st = "raised"

\* C3: the tool-service connection is acquired once, before the lead worker or
\* any subagent worker exists, and released once after the lead worker's run
\* has finished, returned or raised; every subagent invocation happens while
\* the connection is open.
C3_ScopedConnection ==
    /\ acquired <= 1
    /\ released <= acquired
    /\ mcp = "open" <=> (acquired = 1 /\ released = 0)
    /\ mcp = "closed" <=> released = 1
    /\ (coordinator # NoObject \/ calls # <<>>) => acquired = 1
    /\ ("lead_run" \in Range(log) /\ pc \in {"returned", "raised"}) => released = 1
    /\ released = 1 => /\ "lead_run" \in Range(log)
                       /\ pc \in {"returned", "raised", "main_done"}
                       /\ Settled
    /\ \A k \in 1..Len(calls) : calls[k].connection = "open"
    /\ (\E k \in 1..Len(calls) : calls[k].st = "running") => mcp = "open"

C3_Witness ==
    /\ pc = "raised"
    /\ released = 1
    /\ acquired = 1
    /\ Len(calls) = 2

\* C4: when a required credential is absent at the call of run_deep_research,
\* the missing-credential error for it is raised before any completion request
\* of the planner or of the splitter has been issued.
C4_EagerCredentialCheck ==
    (/\ entry = "run"
     /\ pc = "raised"
     /\ \/ env.HF_TOKEN = None /\ error = MissingHf
        \/ env.FIRECRAWL_API_KEY = None /\ error = MissingFirecrawl)
    => planRequests = <<>> /\ splitRequests = <<>>

\* C5: with the inference credential missing, generate_research_plan and
\* split_into_subtasks each fail with the missing-credential error, having
\* constructed no client and issued no request.
C5_NoRequestWithoutToken ==
    env.HF_TOKEN = None =>
      /\ planClients = 0 /\ planRequests = <<>>
      /\ splitClients = 0 /\ splitRequests = <<>>
      /\ pc \notin {"main_input", "main_exit", "run_start", "plan_client", "split_client"}
            => pc = "raised" /\ error = MissingHf /\ result = None

C5_Witness ==
    /\ env.HF_TOKEN = None
    /\ entry \in {"plan", "split"}
    /\ pc = "raised"
    /\ error = MissingHf
\* C6: with the tool-service credential missing, run_deep_research fails with
\* the missing-credential error before it constructs the lead worker or any
\* subagent and before it opens the tool-service connection.
C6_NoWorkerWithoutKey ==
    (entry = "run" /\ env.FIRECRAWL_API_KEY = None) =>
      /\ coordinator = NoObject
      /\ calls = <<>>
      /\ mcp = "none" /\ acquired = 0
      /\ mcp_url = None
      /\ pc \notin {"mcp_enter", "new_coordinator", "lead_call", "lead_running",
                    "mcp_exit", "returned"}
      /\ (pc = "raised" /\ Len(models) = 2) => error = MissingFirecrawl

C6_Witness ==
    /\ entry = "run"
    /\ env.FIRECRAWL_API_KEY = None
    /\ pc = "raised"
    /\ error = MissingFirecrawl
    /\ Len(models) = 2

\* Concatenation, in order, of the content extracted from each chunk, a chunk
\* whose content is absent contributing nothing.
RECURSIVE ConcatContents(_)
ConcatContents(seq) ==
    IF seq = <<>> THEN ""
    ELSE LET c == _extract_content(Head(seq)) IN
         (IF c.some THEN c.val ELSE "") \o ConcatContents(Tail(seq))

\* C7: for every streaming response generate_research_plan returns the
\* concatenation, in arrival order, of the content extracted from each chunk,
\* skipping the chunks whose content is absent.
C7_StreamConcatenation ==
    pc = "plan_return_stream" => planRet = Some(ConcatContents(arrived))

C7_Witness ==
    /\ pc = "plan_return_stream"
    /\ Len(arrived) = 2
    /\ _extract_content(arrived[1]) = Some("a")
    /\ _extract_content(arrived[2]) = Some("b")
    /\ planRet = Some("ab")

\* The message content of a complete response, when its first choice has one.
MessageContent(obj) ==
    IF "choices" \in DOMAIN obj /\ obj.choices # <<>> /\ "message" \in DOMAIN obj.choices[1]
    THEN obj.choices[1].message.content
    ELSE None

\* C8: when the returned object cannot be iterated, generate_research_plan
\* does not fail: it returns the message content of that object, unchanged
\* (the empty text when the object carries no content).
C8_CompleteFallback ==
    (completion # NoObject /\ ~Iterable(completion)) =>
      /\ pc # "raised"
      /\ pc # "plan_return_stream"
      /\ pc = "plan_return_complete" =>
            planRet = Some(IF MessageContent(completion).some
                           THEN MessageContent(completion).val ELSE "")

C8_Witness ==
    /\ entry = "plan"
    /\ pc = "returned"
    /\ ~Iterable(completion)
    /\ MessageContent(completion) = Some("m")
    /\ result = Some("m")

\* The response content is valid JSON with a `subtasks` array of well-formed
\* records.
WellFormedRecord(e) ==
    IsObj(e) /\ \A f \in SubtaskFields : f \in DOMAIN e.obj /\ IsStr(e.obj[f])
WellFormedContent(content) ==
    /\ content.some
    /\ "json" \in DOMAIN content.val
    /\ IsObj(content.val.json)
    /\ "subtasks" \in DOMAIN content.val.json.obj
    /\ IsArr(content.val.json.obj.subtasks)
    /\ \A e \in Range(content.val.json.obj.subtasks.arr) : WellFormedRecord(e)

SubtaskArray == message.content.val.json.obj.subtasks.arr

\* C9: for a response whose content is valid JSON with a `subtasks` array of
\* well-formed records, split_into_subtasks returns one Subtask per element, in
\* the array's order, each with the id, title and description of its element.
C9_OneSubtaskPerElement ==
    (message # NoObject /\ WellFormedContent(message.content)) =>
      /\ pc # "raised"
      /\ pc \in {"split_return", "returned"} =>
            /\ Len(subtasks) = Len(SubtaskArray)
            /\ \A k \in 1..Len(subtasks) :
                  /\ subtasks[k].id = SubtaskArray[k].obj.id.str
                  /\ subtasks[k].title = SubtaskArray[k].obj.title.str
                  /\ subtasks[k].description = SubtaskArray[k].obj.description.str
            /\ pc = "returned" => result = Some(subtasks)

C9_Witness ==
    /\ entry = "split"
    /\ pc = "returned"
    /\ WellFormedContent(message.content)
    /\ Len(result.val) = 2
    /\ result.val[1].id = "B"
    /\ result.val[2].id = "A"

\* The response content is text that is not valid JSON, or JSON without the
\* `subtasks` key.
NoSubtasksKey(content) ==
    /\ content.some
    /\ \/ "malformed" \in DOMAIN content.val
       \/ ~IsObj(content.val.json)
       \/ "subtasks" \notin DOMAIN content.val.json.obj

\* C10: when the response content is not valid JSON, or is JSON without the
\* `subtasks` key, split_into_subtasks raises the 'Failed to parse subtasks
\* from response' error and returns no list.
C10_ParseFailure ==
    (message # NoObject /\ NoSubtasksKey(message.content) /\ pc # "split_parse") =>
      /\ pc = "raised"
      /\ error = ParseFailure
      /\ result = None
      /\ subtasks = <<>>

C10_Witness ==
    /\ entry = "split"
    /\ pc = "raised"
    /\ error = ParseFailure
    /\ message.content = Some(Text(JObj([wrong_key |-> JArr(<<>>)])))
\* The response content is valid JSON whose `subtasks` value is an array.
HasSubtaskArray(content) ==
    /\ content.some
    /\ "json" \in DOMAIN content.val
    /\ IsObj(content.val.json)
    /\ "subtasks" \in DOMAIN content.val.json.obj
    /\ IsArr(content.val.json.obj.subtasks)

MissesField(e) == IsObj(e) /\ \E f \in SubtaskFields : f \notin DOMAIN e.obj

\* Some element of the array is a record without one of the required fields.
HasRecordMissingField(content) ==
    /\ HasSubtaskArray(content)
    /\ \E e \in Range(content.val.json.obj.subtasks.arr) : MissesField(e)

SplitOver == pc \notin {"split_parse", "split_build"}

\* The original C11: a record that lacks a required field gives the same
\* 'Failed to parse subtasks from response' error as malformed JSON does.
C11_SchemaViolationClassified ==
    (message # NoObject /\ HasRecordMissingField(message.content) /\ SplitOver) =>
      /\ pc = "raised"
      /\ error = ParseFailure
      /\ result = None

\* C11 as amended: a record that lacks a required field makes the whole split
\* fail and no list, partial or not, is returned; the failure is the
\* ValidationError of the record's construction (a TypeError when an element
\* before it is not an object), not the classified parse error.
C11_SchemaViolationFails ==
    (message # NoObject /\ HasRecordMissingField(message.content) /\ SplitOver) =>
      /\ pc = "raised"
      /\ error \in {"ValidationError", "TypeError"}
      /\ (\A e \in Range(SubtaskArray) : IsObj(e)) => error = "ValidationError"
      /\ result = None
      /\ subtasks = <<>>

C11_Witness ==
    /\ entry = "split"
    /\ pc = "raised"
    /\ error = "ValidationError"
    /\ HasSubtaskArray(message.content)
    /\ Len(SubtaskArray) = 2
    /\ WellFormedRecord(SubtaskArray[1])
    /\ MissesField(SubtaskArray[2])

\* C12: no Subtask with an empty title or an empty description is admitted:
\* a list that split_into_subtasks has built holds none.
C12_NoEmptyTitleOrDescription ==
    pc \in {"split_return", "returned"} =>
      \A k \in 1..Len(subtasks) : subtasks[k].title # "" /\ subtasks[k].description # ""

\* The response content has the wrong type somewhere: no content, a top level
\* that is not an object, a `subtasks` value that is not an array, or an
\* array element that is not an object.
TypeMismatch(content) ==
    \/ ~content.some
    \/ /\ "json" \in DOMAIN content.val
       /\ \/ ~IsObj(content.val.json)
          \/ /\ "subtasks" \in DOMAIN content.val.json.obj
             /\ \/ ~IsArr(content.val.json.obj.subtasks)
                \/ \E e \in Range(content.val.json.obj.subtasks.arr) : ~IsObj(e)

\* C13: a type mismatch in the response makes split_into_subtasks fail with
\* the 'Failed to parse subtasks from response' error: no other error, no list.
C13_TypeMismatchClassified ==
    (message # NoObject /\ TypeMismatch(message.content) /\ SplitOver) =>
      /\ pc = "raised"
      /\ error = ParseFailure
      /\ result = None

EmptyList == Some(Text(JObj([subtasks |-> JArr(<<>>)])))

\* C14: a response with zero subtasks makes split_into_subtasks return the
\* empty list, with no error.
C14_EmptyListReturned ==
    (message # NoObject /\ message.content = EmptyList /\ SplitOver) =>
      /\ pc \in {"split_return", "returned"}
      /\ error = "none"
      /\ subtasks = <<>>
      /\ pc = "returned" => result = Some(<<>>)

C14_Witness ==
    /\ entry = "split"
    /\ pc = "returned"
    /\ message.content = EmptyList
    /\ result = Some(<<>>)

\* C15: the Subtasks of a list that split_into_subtasks returns, and that the
\* Coordinator goes on to use, have pairwise distinct ids.
C15_DistinctIds ==
    (pc \in {"split_return", "returned"} \/ coordinator # NoObject) =>
      \A j, k \in 1..Len(subtasks) : j # k => subtasks[j].id # subtasks[k].id
\* The value substituted at the placeholder that follows the literal `tag`.
Slot(prompt, tag) ==
    prompt[(CHOOSE i \in 1..(Len(prompt) - 1) : i % 2 = 1 /\ prompt[i] = tag) + 1]

Count(seq, x) == Cardinality({i \in 1..Len(seq) : seq[i] = x})

\* The serialised list carries the id and the title of every subtask, in order.
CarriesIdsAndTitles(json, list) ==
    /\ "json" \in DOMAIN json
    /\ IsArr(json.json)
    /\ Len(json.json.arr) = Len(list)
    /\ \A k \in 1..Len(list) :
         /\ json.json.arr[k].obj.id = JStr(list[k].id)
         /\ json.json.arr[k].obj.title = JStr(list[k].title)

\* C16: a run that returns, returns exactly what the lead worker's run returned;
\* the lead worker was run once, on a prompt that holds the query, the plan
\* the plan generator returned, and the id and title of every subtask the
\* splitter returned; and a run whose lead worker returned does return.
C16_ReturnsLeadReport ==
    /\ (entry = "run" /\ pc = "returned") =>
      /\ final_report.some
      /\ result = final_report
      /\ Count(log, "lead_run") = 1
      /\ Slot(coordinator_prompt, "coordinator:query") = query
      /\ Slot(coordinator_prompt, "coordinator:plan") = planRet.val
      /\ CarriesIdsAndTitles(Slot(coordinator_prompt, "coordinator:subtasks"), subtasks)
    /\ (entry = "run" /\ final_report.some /\ pc \in {"returned", "raised"}) =>
         pc = "returned" /\ result = final_report

C16_Witness ==
    /\ entry = "run"
    /\ pc = "returned"
    /\ result = Some("R1")
    /\ planRet.val # ""
    /\ Len(subtasks) = 2

\* C17: the lead worker has exactly one tool, the subagent invocation with its
\* three inputs subtask_id, subtask_title and subtask_description; it has no
\* base tools and the research tools are not among its tools, whatever the
\* list of subtasks.
C17_SingleTool ==
    coordinator # NoObject =>
      /\ Len(coordinator.tools) = 1
      /\ coordinator.tools[1].name = "initialize_subagent"
      /\ coordinator.tools[1].inputs = <<"subtask_id", "subtask_title", "subtask_description">>
      /\ coordinator.add_base_tools = FALSE
      /\ \A k \in 1..Len(coordinator.tools) : coordinator.tools[k].name # "mcp_tools"

C17_Witness ==
    /\ entry = "run"
    /\ coordinator # NoObject
    /\ subtasks = <<>>
    /\ pc = "lead_running"

\* C18: the plan generator and the task splitter each issue at most one
\* completion request, and exactly one once the request returned; the
\* non-streaming fallback adds none, and none is added after a failure.
C18_NoRetry ==
    /\ Len(planRequests) <= 1
    /\ Len(splitRequests) <= 1
    /\ pc \in {"plan_stream", "plan_fallback"} \cup PlanReturnSites => Len(planRequests) = 1
    /\ pc \in {"split_parse", "split_build", "split_return"} => Len(splitRequests) = 1
    /\ (entry = "plan" /\ pc = "returned") => Len(planRequests) = 1
    /\ (entry = "split" /\ pc = "returned") => Len(splitRequests) = 1
    /\ (entry = "run" /\ coordinator # NoObject) =>
         Len(planRequests) = 1 /\ Len(splitRequests) = 1

C18_Witness ==
    /\ pc = "plan_return_complete"
    /\ completion \notin {NoObject, StreamObject}
    /\ Len(planRequests) = 1
\* C19: each invocation of the subagent tool runs its worker once; what the
\* worker returned is the invocation's report, unaltered, and what the worker
\* raised is what the tool call raises, unaltered and with no report.
C19_RunOnceVerbatim ==
    \A k \in 1..Len(calls) :
      /\ calls[k].runs = 1
      /\ calls[k].st = "running" =>
           calls[k].out = None /\ calls[k].exc = "none"
      /\ calls[k].st = "returned" =>
           /\ calls[k].worker_out.some
           /\ calls[k].out = calls[k].worker_out
           /\ calls[k].exc = "none"
      /\ calls[k].st = "raised" =>
           /\ calls[k].worker_exc # "none"
           /\ calls[k].exc = calls[k].worker_exc
           /\ calls[k].out = None

C19_Witness ==
    /\ Len(calls) = 2
    /\ calls[1].st = "raised"
    /\ calls[1].exc = WorkerFailure
    /\ calls[2].st = "returned"
    /\ calls[2].out = Some("r2")

\* The values every invocation of a run reads.
SharedValues == <<query, research_plan, subtasks, models, mcp, mcp_url, hf_token>>

\* Invocation k is built from its own arguments and the run's shared values.
OwnInputsOnly(k) ==
    /\ calls[k].prompt = SubagentPrompt(query, research_plan, calls[k].args.id,
                                        calls[k].args.title, calls[k].args.description)
    /\ calls[k].subagent.tools = "mcp_tools"
    /\ calls[k].subagent.model = 2
    /\ calls[k].subagent.name = "subagent_" \o calls[k].args.id
    /\ \A j \in 1..Len(calls) : j # k => calls[j].subagent.object # calls[k].subagent.object

\* A step of the lead worker's run touches one invocation at most: it adds one
\* and leaves the others as they are, or changes one and leaves the others and
\* that one's worker, arguments and prompt as they are.
TouchesOneInvocation ==
    /\ Len(calls') \in {Len(calls), Len(calls) + 1}
    /\ \E k \in 1..Len(calls') :
         \A j \in 1..Len(calls) : j # k => calls'[j] = calls[j]
    /\ \A j \in 1..Len(calls) :
         /\ calls'[j].subagent = calls[j].subagent
         /\ calls'[j].args = calls[j].args
         /\ calls'[j].prompt = calls[j].prompt

\* C20: in any interleaving of subagent invocations, every invocation has a
\* worker object of its own, its prompt is made of its own id, title and
\* description and of the run's query, plan, tool handle and subagent model,
\* a step of one invocation changes no other invocation, and no invocation
\* changes the shared values.
C20_InvocationsIsolated ==
    [][(pc = "lead_running" /\ pc' = "lead_running") =>
         /\ SharedValues' = SharedValues
         /\ TouchesOneInvocation
         /\ \A k \in 1..Len(calls) : OwnInputsOnly(k)
         /\ \A k \in 1..Len(calls') : OwnInputsOnly(k)']_vars

C20_Witness ==
    /\ Len(calls) = 2
    /\ calls[1].args # calls[2].args
    /\ calls[1].st = "running"
    /\ calls[2].st = "returned"
\* C21: the final report exists only once every subagent invocation the lead
\* worker started has ended; from then on none is in progress and none can
\* begin or end.
C21_SynthesisAfterSubagents ==
    (entry = "run" /\ (final_report.some \/ pc = "returned")) =>
      /\ Settled
      /\ ~ENABLED LeadInvoke
      /\ ~ENABLED SubagentEnd

C21_Witness ==
    /\ entry = "run"
    /\ pc = "returned"
    /\ result = final_report
    /\ Len(calls) = 2
    /\ calls[1].st = "returned"
    /\ calls[2].st = "returned"

\* C22: every invocation of the subagent tool carries the id, title and
\* description of a subtask of the list the splitter returned.
C22_ArgsFromList ==
    \A k \in 1..Len(calls) : calls[k].args \in Range(subtasks)

\* C23: whatever invocations of the subagent tool the lead worker made (none,
\* fewer than the subtasks, the same subtask twice), a run whose lead worker
\* returned a report returns that report, with no error.
C23_NoCoverageValidation ==
    (entry = "run" /\ "lead_return" \in Range(log) /\ pc \in {"returned", "raised"}) =>
      /\ pc = "returned"
      /\ error = "none"
      /\ result = final_report
      /\ result.some

C23_Witness ==
    /\ entry = "run"
    /\ pc = "returned"
    /\ result.some
    /\ Len(subtasks) = 2
    /\ subtasks[1] # subtasks[2]
    /\ Len(calls) = 2
    /\ calls[1].args = subtasks[1]
    /\ calls[2].args = subtasks[1]

\* The list holds, in order, one subtask per element of the response's array.
FollowsArray(list, array) ==
    /\ Len(list) = Len(array)
    /\ \A k \in 1..Len(list) : array[k].obj.id = JStr(list[k].id)
                               /\ array[k].obj.title = JStr(list[k].title)
                               /\ array[k].obj.description = JStr(list[k].description)

\* C24: the list the splitter returns follows the order of the response's
\* `subtasks` array, no later step changes the list, and the array serialised
\* into the lead worker's prompt is the list's records in the list's order.
C24_OrderPreserved ==
    [][/\ (pc' = "split_return" /\ HasSubtaskArray(message'.content)) =>
            FollowsArray(subtasks', SubtaskArray')
       /\ pc \notin {"split_parse", "split_build"} => subtasks' = subtasks
       /\ coordinator' # NoObject =>
            LET sent == Slot(coordinator_prompt', "coordinator:subtasks") IN
            /\ "json" \in DOMAIN sent
            /\ IsArr(sent.json)
            /\ FollowsArray(subtasks', sent.json.arr)]_vars

C24_Witness ==
    /\ entry = "run"
    /\ coordinator # NoObject
    /\ Len(subtasks) = 2
    /\ subtasks[1].id = "B"
    /\ subtasks[2].id = "A"
    /\ Slot(coordinator_prompt, "coordinator:subtasks").json.arr[1].obj.id = JStr("B")

\* C25: the complete-response branch of the plan generator is taken only for
\* an object that cannot be iterated: never for a stream, before or after it
\* has yielded chunks.
C25_FallbackOnlyForShape ==
    pc \in {"plan_fallback", "plan_return_complete"} => ~Iterable(completion)

\* Whether the choice has the field and the field has a content.
Exposes(choice, field) == field \in DOMAIN choice /\ "content" \in DOMAIN choice[field]

\* The content the parser is to give for a response unit.
PreferredContent(unit) ==
    IF "choices" \notin DOMAIN unit THEN None
    ELSE IF Len(unit.choices) = 0 THEN None
    ELSE CASE Exposes(unit.choices[1], "delta") -> unit.choices[1].delta.content
           [] ~Exposes(unit.choices[1], "delta") /\ Exposes(unit.choices[1], "message") ->
                unit.choices[1].message.content
           [] OTHER -> None

RECURSIVE KeptContents(_)
KeptContents(seq) ==
    IF seq = <<>> THEN <<>>
    ELSE (IF Truthy(PreferredContent(Head(seq))) THEN <<PreferredContent(Head(seq)).val>>
          ELSE <<>>) \o KeptContents(Tail(seq))

\* C26: from every response unit the parser takes the first choice's delta
\* content when the choice has one, else its message content when it has one,
\* else nothing; a unit without choices or without content gives nothing, and
\* extraction is never the failure of the plan generator.
C26_DeltaThenMessage ==
    /\ chunks = KeptContents(arrived)
    /\ pc = "plan_return_complete" =>
         planRet = Some(IF Truthy(PreferredContent(completion))
                        THEN PreferredContent(completion).val ELSE "")
    /\ (entry = "plan" /\ pc = "raised") =>
         error \in {MissingHf, "UpstreamFailure: plan request", "UpstreamFailure: plan stream"}

C26_Witness ==
    /\ entry = "plan"
    /\ pc = "plan_return_stream"
    /\ arrived = <<[choices |-> <<[delta |-> [content |-> None],
                                  message |-> [content |-> Some("m")]]>>],
                  [choices |-> <<>>]>>
    /\ planRet = Some("")
\* The splitter has returned to run_deep_research, and returned no subtask.
EmptyPlan == entry = "run" /\ "split_return" \in Range(log) /\ subtasks = <<>>

\* C27: when the splitter returns no subtasks the run goes on as for any list:
\* it fails only for the reasons any run fails, it returns only after both
\* models and the connection were provisioned and the lead worker, with its
\* single tool, was run once on a prompt whose subtask array is empty; no
\* subagent exists unless the lead worker's run invoked the tool; and what
\* the run returns is the lead worker's output.
C27_EmptyListAccepted ==
    EmptyPlan =>
      /\ pc = "raised" =>
           error \in {MissingHf, MissingFirecrawl, "UpstreamFailure: model",
                      "UpstreamFailure: tool service", "UpstreamFailure: lead run",
                      WorkerFailure}
      /\ coordinator # NoObject =>
           /\ Len(coordinator.tools) = 1
           /\ Slot(coordinator_prompt, "coordinator:subtasks") = Text(JArr(<<>>))
      /\ calls # <<>> => Count(log, "lead_run") = 1
      /\ pc = "returned" =>
           /\ Len(models) = 2
           /\ acquired = 1
           /\ coordinator # NoObject
           /\ Count(log, "lead_run") = 1
           /\ final_report.some
           /\ result = final_report

C27_Witness ==
    /\ EmptyPlan
    /\ pc = "returned"
    /\ calls = <<>>
    /\ result = Some("R2")

\* C28: a run creates two model handles with the inference credential, the
\* lead worker's first and the subagents' second; the lead worker is built on
\* the first and every subagent on the second.
C28_ModelRoles ==
    /\ Len(models) <= 2
    /\ \A k \in 1..Len(models) :
         /\ models[k].api_key = env.HF_TOKEN.val
         /\ models[k].model_id = (IF k = 1 THEN COORDINATOR_MODEL_ID ELSE SUBAGENT_MODEL_ID)
    /\ coordinator # NoObject => Len(models) = 2 /\ coordinator.model = 1
    /\ \A k \in 1..Len(calls) : calls[k].subagent.model = 2 /\ Len(models) = 2

C28_Witness ==
    /\ entry = "run"
    /\ coordinator # NoObject
    /\ coordinator.model = 1
    /\ Len(calls) = 2
    /\ calls[2].subagent.model = 2
    /\ pc = "returned"

\* C29: a credential that is set to the empty string is treated as an absent
\* one: with an empty HF_TOKEN no client is constructed and no request is
\* issued by the plan generator or the splitter and the failure is the
\* missing-credential error; with an empty FIRECRAWL_API_KEY no URL is built.
C29_EmptyCredentialIsMissing ==
    /\ env.HF_TOKEN = Some("") =>
         /\ planClients = 0 /\ planRequests = <<>>
         /\ splitClients = 0 /\ splitRequests = <<>>
         /\ hf_token = None
         /\ pc \in {"raised", "returned"} => pc = "raised" /\ error = MissingHf
    /\ env.FIRECRAWL_API_KEY = Some("") =>
         /\ mcp_url = None
         /\ (entry = "run" /\ Len(models) = 2 /\ pc \in {"raised", "returned"}) =>
              pc = "raised" /\ error = MissingFirecrawl
OnlyBlanks(line) == \A k \in 1..Len(line) : line[k] \in Whitespace

\* C30: the output file exists only once run_deep_research has returned a
\* report, and a completed main() has written exactly that report; for an
\* empty or blank line run_deep_research is not called and nothing is written;
\* when run_deep_research fails nothing is written.
C30_ArtifactAfterReport ==
    /\ artifact # None =>
         /\ entry = "main"
         /\ "lead_return" \in Range(log)
         /\ final_report.some
         /\ released = 1
    /\ pc = "main_done" => artifact = final_report /\ artifact.some
    /\ (entry = "main" /\ OnlyBlanks(user_input)) =>
         /\ pc \in {"main_input", "main_exit"}
         /\ log = <<>>
         /\ planClients = 0 /\ planRequests = <<>>
         /\ artifact = None
    /\ (entry = "main" /\ pc = "raised" /\ error # "OSError") => artifact = None

C30_Witness ==
    /\ entry = "main"
    /\ user_input = <<" ", "q1", " ">>
    /\ query = "q1"
    /\ pc = "main_done"
    /\ artifact = Some("R1")
====
